---------------------------- MODULE Spec2Model ----------------------------
(***************************************************************************)
(* Move-planning dashboard (src/item_planning.py): the SQLite store        *)
(* MoveDatabase, the projection get_all_items / update_gantt and the       *)
(* reconciling callbacks handle_submit, handle_row_deletion and            *)
(* handle_table_edit.                                                      *)
(*                                                                         *)
(* Three specifications share the variables:                               *)
(*   SpecStore  the MoveDatabase methods called directly                   *)
(*   SpecGantt  update_gantt applied to snapshots drawn from a bounded set *)
(*   Spec       one browser session driving the callbacks                  *)
(***************************************************************************)
EXTENDS Integers, Sequences, FiniteSets, TLC

VARIABLES
    db,             \* the SQLite file: tables items, intervals, sqlite_sequence
    call,           \* the last MoveDatabase call, its arguments and outcome
    tasks,          \* update_gantt: the `data` argument
    gantt,          \* update_gantt: outcome (raised, gantt_data, figure)
    table,          \* tasks-table.data as held by the browser
    modal,          \* modal.is_open, edit-mode-store.data, tasks-table.active_cell
                    \* and the form as handle_modal_state left it
    ev,             \* the table change being dispatched: data, data_previous
    pending,        \* callbacks dispatched for ev that have not yet answered
    pass            \* the last callback that answered, its path and its return value

vars == <<db, call, tasks, gantt, table, modal, ev, pending, pass>>

-----------------------------------------------------------------------------
(* Bounds *)

MaxItemId     == 2   \* AUTOINCREMENT ids handed out by the items table
MaxIntervalId == 3   \* AUTOINCREMENT ids handed out by the intervals table
MaxIntervals  == 2   \* length of an interval list passed to the store
MaxTasks      == 2   \* rows of a snapshot given to update_gantt
MaxNoteId     == 2   \* AUTOINCREMENT ids handed out by the notes table

-----------------------------------------------------------------------------
(* Values *)

NULL   == "<NULL>"     \* SQL NULL, Python None, JSON null
Absent == "<absent>"   \* a key that a dict does not hold

\* an interval dict {Location, Start, End}; a key the dict lacks is Absent
Interval(loc, start, end) == [Location |-> loc, Start |-> start, End |-> end]

Hawaii == Interval("Hawaii", "2023-09-01", "2023-09-03")
Sydney == Interval("Sydney", "2023-09-03", "2023-09-01")
NoEnd  == Interval("Sold", "2023-09-05", Absent)
Nulls  == Interval(NULL, NULL, NULL)

\* the `intervals` argument: None, or a list
None      == [given |-> FALSE, list |-> <<>>]
Given(L)  == [given |-> TRUE, list |-> L]

SeqsUpTo(S, n) == UNION {[1..k -> S] : k \in 0..n}

RemoveAt(seq, i) == SubSeq(seq, 1, i - 1) \o SubSeq(seq, i + 1, Len(seq))

RECURSIVE Concat(_)
Concat(ss) == IF ss = <<>> THEN <<>> ELSE Head(ss) \o Concat(Tail(ss))

-----------------------------------------------------------------------------
(* The store: MoveDatabase *)

\* init_database on a new file
EmptyDb ==
    [items           |-> <<>>,
     intervals       |-> <<>>,
     notes           |-> <<>>,
     general_notes   |-> <<>>,
     sqlite_sequence |-> [items |-> 0, intervals |-> 0, notes |-> 0]]

\* outcome of one method call: the file afterwards, whether the call raised,
\* whether the name lookup resolved and to which id, and the value returned
\* (add_item, update_item and delete_item have no return statement: None)
Outcome(d, raised, found, id) ==
    [db |-> d, raised |-> raised, found |-> found, item_id |-> id,
     returned |-> NULL]

\* leaving `with sqlite3.connect(...)` by an exception, or conn.rollback():
\* the file is what it was when the transaction began
MutRollback(before, now) == now
Rollback(before, now) == before

HasKeys(interval) ==
    /\ interval.Location # Absent
    /\ interval.Start # Absent
    /\ interval.End # Absent

\* INSERT INTO intervals (item_id, location, start_date, end_date)
MutInsertInterval(d, item_id, interval) ==
    LET id == d.sqlite_sequence.intervals + 1
    IN  [d EXCEPT !.intervals = Append(@, [id         |-> id,
                                            item_id    |-> item_id,
                                            location   |-> interval.Location,
                                            start_date |-> interval.End,
                                            end_date   |-> interval.Start]),
                  !.sqlite_sequence.intervals = id]
InsertInterval(d, item_id, interval) ==
    LET id == d.sqlite_sequence.intervals + 1
    IN  [d EXCEPT !.intervals = Append(@, [id         |-> id,
                                            item_id    |-> item_id,
                                            location   |-> interval.Location,
                                            start_date |-> interval.Start,
                                            end_date   |-> interval.End]),
                  !.sqlite_sequence.intervals = id]

\* for interval in intervals: cursor.execute(INSERT ...), where n numbers
\* the execute() calls of the method.  The subscript interval['Location'] /
\* ['Start'] / ['End'] raises KeyError on a dict that lacks the key, and the
\* execute() numbered `fault` raises sqlite3.Error; either way the earlier
\* inserts have been executed
RECURSIVE InsertIntervals(_, _, _, _, _)
InsertIntervals(d, item_id, list, n, fault) ==
    IF list = <<>> THEN [db |-> d, raised |-> FALSE]
    ELSE IF ~HasKeys(Head(list)) \/ n = fault THEN [db |-> d, raised |-> TRUE]
    ELSE InsertIntervals(InsertInterval(d, item_id, Head(list)), item_id,
                         Tail(list), n + 1, fault)

\* SELECT id FROM items WHERE name = ? ... fetchone(): the first row, in
\* rowid order, whose name matches (0 when there is none)
MutLookup(d, name) ==
    LET hits == {i \in 1..Len(d.items) : d.items[i].name = name}
    IN  IF hits = {} THEN 0
        ELSE d.items[CHOOSE i \in hits : \A j \in hits : j <= i].id
Lookup(d, name) ==
    LET hits == {i \in 1..Len(d.items) : d.items[i].name = name}
    IN  IF hits = {} THEN 0
        ELSE d.items[CHOOSE i \in hits : \A j \in hits : i <= j].id

IntervalsOf(d, item_id) == SelectSeq(d.intervals, LAMBDA iv : iv.item_id = item_id)

\* DELETE FROM intervals WHERE item_id = ?
MutDeleteIntervals(d, item_id) ==
    [d EXCEPT !.intervals =
        IF IntervalsOf(d, item_id) = <<>> THEN @
        ELSE SelectSeq(@, LAMBDA iv : iv.id # IntervalsOf(d, item_id)[1].id)]
DeleteIntervals(d, item_id) ==
    [d EXCEPT !.intervals = SelectSeq(@, LAMBDA iv : iv.item_id # item_id)]

\* add_item; `fault` is the number of the execute() call at which the
\* storage layer fails (0: it does not)
Mutadd_item(d, name, category, owner, notes, intervals, fault) ==
    IF fault = 1 THEN Outcome(Rollback(d, d), TRUE, FALSE, 0)
    ELSE
    LET item_id  == Len(d.items) + 1
        inserted == [d EXCEPT !.items = Append(@, [id             |-> item_id,
                                                   name           |-> name,
                                                   category       |-> category,
                                                   assigned_owner |-> owner,
                                                   notes          |-> notes]),
                              !.sqlite_sequence.items = item_id]
        \* `if intervals:` is false for None and for the empty list
        ins      == IF intervals.given /\ intervals.list # <<>>
                    THEN InsertIntervals(inserted, item_id, intervals.list, 2, fault)
                    ELSE [db |-> inserted, raised |-> FALSE]
    IN  IF ins.raised
        THEN Outcome(Rollback(d, ins.db), TRUE, FALSE, item_id)
        ELSE Outcome(ins.db, FALSE, FALSE, item_id)
add_item(d, name, category, owner, notes, intervals, fault) ==
    IF fault = 1 THEN Outcome(Rollback(d, d), TRUE, FALSE, 0)
    ELSE
    LET item_id  == d.sqlite_sequence.items + 1
        inserted == [d EXCEPT !.items = Append(@, [id             |-> item_id,
                                                   name           |-> name,
                                                   category       |-> category,
                                                   assigned_owner |-> owner,
                                                   notes          |-> notes]),
                              !.sqlite_sequence.items = item_id]
        \* `if intervals:` is false for None and for the empty list
        ins      == IF intervals.given /\ intervals.list # <<>>
                    THEN InsertIntervals(inserted, item_id, intervals.list, 2, fault)
                    ELSE [db |-> inserted, raised |-> FALSE]
    IN  IF ins.raised
        THEN Outcome(Rollback(d, ins.db), TRUE, FALSE, item_id)
        ELSE Outcome(ins.db, FALSE, FALSE, item_id)

\* delete_item
Mutdelete_item(d, name, fault) ==
    IF fault = 1 THEN Outcome(Rollback(d, d), TRUE, FALSE, 0)
    ELSE
    LET item_id == Lookup(d, name)
    IN  IF item_id # 0
        THEN LET noIntervals == DeleteIntervals(d, item_id)
                 noItem == [noIntervals EXCEPT !.items =
                                SelectSeq(@, LAMBDA it : it.id # item_id)]
             IN  IF fault = 2 THEN Outcome(Rollback(d, d), TRUE, TRUE, item_id)
                 ELSE IF fault = 3
                 THEN Outcome(Rollback(d, noIntervals), TRUE, TRUE, item_id)
                 ELSE Outcome(noItem, FALSE, TRUE, item_id)
        ELSE Outcome(d, TRUE, FALSE, 0)
delete_item(d, name, fault) ==
    IF fault = 1 THEN Outcome(Rollback(d, d), TRUE, FALSE, 0)
    ELSE
    LET item_id == Lookup(d, name)
    IN  IF item_id # 0
        THEN LET noIntervals == DeleteIntervals(d, item_id)
                 noItem == [noIntervals EXCEPT !.items =
                                SelectSeq(@, LAMBDA it : it.id # item_id)]
             IN  IF fault = 2 THEN Outcome(Rollback(d, d), TRUE, TRUE, item_id)
                 ELSE IF fault = 3
                 THEN Outcome(Rollback(d, noIntervals), TRUE, TRUE, item_id)
                 ELSE Outcome(noItem, FALSE, TRUE, item_id)
        ELSE Outcome(d, FALSE, FALSE, 0)

\* update_item
update_item(d, old_name, name, category, owner, notes, intervals, fault) ==
    IF fault = 1 THEN Outcome(Rollback(d, d), TRUE, FALSE, 0)
    ELSE
    LET item_id == Lookup(d, old_name)
    IN  IF item_id = 0 THEN Outcome(d, FALSE, FALSE, 0)
        ELSE IF fault = 2 THEN Outcome(Rollback(d, d), TRUE, TRUE, item_id)
        ELSE
        LET updated == [d EXCEPT !.items =
                           [i \in 1..Len(@) |->
                               IF @[i].id = item_id
                               THEN [id             |-> item_id,
                                     name           |-> name,
                                     category       |-> category,
                                     assigned_owner |-> owner,
                                     notes          |-> notes]
                               ELSE @[i]]]
            ins     == IF ~intervals.given THEN [db |-> updated, raised |-> FALSE]
                       ELSE IF fault = 3 THEN [db |-> updated, raised |-> TRUE]
                       ELSE InsertIntervals(DeleteIntervals(updated, item_id),
                                            item_id, intervals.list, 4, fault)
        IN  IF ins.raised
            THEN Outcome(Rollback(d, ins.db), TRUE, TRUE, item_id)
            ELSE Outcome(ins.db, FALSE, TRUE, item_id)

-----------------------------------------------------------------------------
(* The store: notes *)

\* save_notes: DELETE FROM general_notes, then INSERT; id INTEGER PRIMARY
\* KEY of an empty table is 1
Mutsave_notes(d, notes) ==
    [d EXCEPT !.general_notes =
        Append(@, [id |-> Len(@) + 1, notes |-> notes])]
save_notes(d, notes) ==
    [d EXCEPT !.general_notes = <<[id |-> 1, notes |-> notes]>>]

\* add_note: item_id is not given (NULL), timestamp defaults to
\* CURRENT_TIMESTAMP, here `now`
add_note(d, note_text, now) ==
    LET id == d.sqlite_sequence.notes + 1
    IN  [d EXCEPT !.notes = Append(@, [id        |-> id,
                                       item_id   |-> NULL,
                                       note_text |-> note_text,
                                       timestamp |-> now]),
                  !.sqlite_sequence.notes = id]

\* update_note: UPDATE notes SET note_text = ? WHERE id = ?
Mutupdate_note(d, note_id, new_text) ==
    [d EXCEPT !.notes = [i \in 1..Len(@) |-> [@[i] EXCEPT !.note_text = new_text]]]
update_note(d, note_id, new_text) ==
    [d EXCEPT !.notes = [i \in 1..Len(@) |->
                            IF @[i].id = note_id
                            THEN [@[i] EXCEPT !.note_text = new_text]
                            ELSE @[i]]]

\* delete_note: DELETE FROM notes WHERE id = ?
delete_note(d, note_id) ==
    [d EXCEPT !.notes = SelectSeq(@, LAMBDA n : n.id # note_id)]

\* ORDER BY timestamp DESC: rows of one timestamp stay in rowid order
RECURSIVE OrderByTimestampDesc(_)
OrderByTimestampDesc(rows) ==
    IF rows = <<>> THEN <<>>
    ELSE LET stamps == {rows[i].timestamp : i \in 1..Len(rows)}
             latest == CHOOSE t \in stamps : \A u \in stamps : u <= t
         IN  SelectSeq(rows, LAMBDA n : n.timestamp = latest)
             \o OrderByTimestampDesc(SelectSeq(rows, LAMBDA n : n.timestamp # latest))

\* get_all_notes: SELECT id, note_text, timestamp FROM notes ORDER BY
\* timestamp DESC
get_all_notes(d) ==
    LET rows == OrderByTimestampDesc(d.notes)
    IN  [i \in 1..Len(rows) |-> [id        |-> rows[i].id,
                                 note_text |-> rows[i].note_text,
                                 timestamp |-> rows[i].timestamp]]

\* get_notes(item_id): the notes WHERE item_id = ?, which no NULL item_id
\* satisfies; called without the argument (Absent) it raises TypeError
get_notes(d, item_id) ==
    IF item_id = Absent THEN [raised |-> TRUE, rows |-> <<>>]
    ELSE [raised |-> FALSE,
          rows   |-> OrderByTimestampDesc(
                        SelectSeq(d.notes, LAMBDA n : /\ n.item_id # NULL
                                                      /\ n.item_id = item_id))]

\* handle_notes: save_notes(notes) when n_clicks is truthy, then
\* `return db.get_notes()`
handle_notes(d, n_clicks, notes) ==
    LET saved == IF n_clicks # 0 THEN save_notes(d, notes) ELSE d
        got   == get_notes(saved, Absent)
    IN  [db |-> saved, raised |-> got.raised,
         returned |-> IF got.raised THEN Absent ELSE got.rows]

-----------------------------------------------------------------------------
(* Text, JSON *)

\* A text value is [t, v]: t tells what the characters are, v the interval
\* dicts written in them.
\*   "none"   no text: SQL NULL / None
\*   "empty"  the empty string
\*   "objs"   JSON objects joined by commas (GROUP_CONCAT of json_object)
\*   "array"  a JSON array of objects; v = <<>> is the text []
\*   "string" a JSON string whose characters are a JSON array (encoded twice)
\*   "bad"    characters that are not JSON
Text(t, v) == [t |-> t, v |-> v]

\* truthiness of a str-or-None
MutTruthy(text) == text.t # "none"
Truthy(text) == text.t \notin {"none", "empty"}

\* json_object('Location', l, 'Start', s, 'End', e): SQL NULL becomes null
json_object(loc, start, end) == Interval(loc, start, end)

\* GROUP_CONCAT(x): NULL over no rows, else the values joined by commas
GROUP_CONCAT(objs) == IF objs = <<>> THEN Text("none", <<>>) ELSE Text("objs", objs)

\* f"[{intervals_str}]"
Bracket(text) ==
    IF text.t = "objs" THEN Text("array", text.v)
    ELSE IF text.t = "empty" THEN Text("array", <<>>)
    ELSE Text("bad", <<>>)

\* json.loads: [ok, kind, v]; ok = FALSE is JSONDecodeError, kind is the
\* Python type of the value ("list" or "str")
json_loads(text) ==
    IF text.t = "array" THEN [ok |-> TRUE, kind |-> "list", v |-> text.v]
    ELSE IF text.t = "string" THEN [ok |-> TRUE, kind |-> "str", v |-> text.v]
    ELSE [ok |-> FALSE, kind |-> "none", v |-> <<>>]

\* json.dumps of a list of dicts
json_dumps(list) == Text("array", list)

-----------------------------------------------------------------------------
(* get_all_items *)

\* items i LEFT JOIN intervals iv ON i.id = iv.item_id, for one item: its
\* interval rows, or a single all-NULL row when it has none
MutLeftJoin(d, item) ==
    [k \in 1..Len(IntervalsOf(d, item.id)) |->
        json_object(IntervalsOf(d, item.id)[k].location,
                    IntervalsOf(d, item.id)[k].start_date,
                    IntervalsOf(d, item.id)[k].end_date)]
LeftJoin(d, item) ==
    LET ivs == IntervalsOf(d, item.id)
    IN  IF ivs = <<>> THEN <<json_object(NULL, NULL, NULL)>>
        ELSE [k \in 1..Len(ivs) |->
                 json_object(ivs[k].location, ivs[k].start_date, ivs[k].end_date)]

\* one snapshot row
Row(name, category, owner, notes, intervals) ==
    [Name |-> name, Category |-> category, Assigned_Owner |-> owner,
     Notes |-> notes, Intervals |-> intervals]

\* the body of the loop over cursor.fetchall()
ItemRow(d, item) ==
    LET intervals_str == GROUP_CONCAT(LeftJoin(d, item))
        loaded == json_loads(Bracket(intervals_str))
        intervals_json ==
            IF ~Truthy(intervals_str) THEN json_dumps(<<>>)
            ELSE IF loaded.ok THEN json_dumps(loaded.v)
            ELSE Text("array", <<>>)
    IN  Row(item.name, item.category, item.assigned_owner, item.notes, intervals_json)

\* get_all_items: GROUP BY i.id, one row per item in id order
Mutget_all_items(d) ==
    [i \in 1..Len(d.items) |-> ItemRow(d, d.items[Len(d.items) + 1 - i])]
get_all_items(d) == [i \in 1..Len(d.items) |-> ItemRow(d, d.items[i])]

\* [{"actions": "✏️", **row} for row in ...]: the rows as the table holds them
TableRow(row) ==
    [actions |-> "edit", Name |-> row.Name, Category |-> row.Category,
     Assigned_Owner |-> row.Assigned_Owner, Notes |-> row.Notes,
     Intervals |-> row.Intervals]

TableRows(rows) == [i \in 1..Len(rows) |-> TableRow(rows[i])]

-----------------------------------------------------------------------------
(* update_gantt *)

\* json.loads(x["Intervals"]) if x["Intervals"] else [], followed by the
\* second json.loads when the first gave a str: [ok, list]
LoadIntervals(text) ==
    IF ~Truthy(text) THEN [ok |-> TRUE, list |-> <<>>]
    ELSE IF json_loads(text).ok
         THEN [ok |-> TRUE, list |-> json_loads(text).v]
         ELSE [ok |-> FALSE, list |-> <<>>]

\* the dict appended to gantt_data
MutGanttRow(task, interval) ==
    [Name |-> task.Name, Category |-> task.Category,
     Assigned_Owner |-> task.Assigned_Owner, Notes |-> task.Notes,
     Location |-> interval.Location, Start |-> interval.Start,
     End |-> interval.Start]
GanttRow(task, interval) ==
    [Name |-> task.Name, Category |-> task.Category,
     Assigned_Owner |-> task.Assigned_Owner, Notes |-> task.Notes,
     Location |-> interval.Location, Start |-> interval.Start,
     End |-> interval.End]

\* for interval in intervals: gantt_data.append({...}); the subscript of a
\* dict that lacks a key raises KeyError once the rows of the intervals
\* before it have been appended
RECURSIVE AppendIntervals(_, _)
AppendIntervals(task, list) ==
    IF list = <<>> THEN <<>>
    ELSE IF ~HasKeys(Head(list)) THEN <<>>
    ELSE <<GanttRow(task, Head(list))>> \o AppendIntervals(task, Tail(list))

\* one iteration of `for task in data`: the rows it appends.  Both
\* JSONDecodeError and KeyError end the iteration (`continue`)
TaskRows(task) ==
    LET loaded == LoadIntervals(task.Intervals)
    IN  IF loaded.ok THEN AppendIntervals(task, loaded.list) ELSE <<>>

Unparseable(task) == ~LoadIntervals(task.Intervals).ok

\* the loop over data
RECURSIVE MutGanttLoop(_)
MutGanttLoop(data) ==
    IF data = <<>> THEN <<>>
    ELSE IF Unparseable(Head(data)) THEN <<>>
    ELSE TaskRows(Head(data)) \o MutGanttLoop(Tail(data))
RECURSIVE GanttLoop(_)
GanttLoop(data) ==
    IF data = <<>> THEN <<>>
    ELSE TaskRows(Head(data)) \o GanttLoop(Tail(data))

\* update_gantt: gantt_data, and whether a figure other than {} is returned
update_gantt(data) ==
    LET gantt_data == IF data = <<>> THEN <<>> ELSE GanttLoop(data)
    IN  [called |-> TRUE, gantt_data |-> gantt_data, figure |-> gantt_data # <<>>]

-----------------------------------------------------------------------------
(* The callbacks *)

\* default_categories[0]
DefaultCategory == "Bed and Bath"

\* truthiness of a form value: None and "" are false
Filled(value) == value \notin {NULL, ""}

\* the add/edit form: four scalar inputs and one {location, start, end}
\* component per interval, read by the pattern-matching State arguments
Form(name, category, owner, notes, components) ==
    [name |-> name, category |-> category, owner |-> owner, notes |-> notes,
     components |-> components]

\* handle_modal_state, edit click: the form populated from row `row` of
\* the table (one component per decoded interval)
LoadedForm(data, row) ==
    Form(data[row].Name, data[row].Category, data[row].Assigned_Owner,
         data[row].Notes, LoadIntervals(data[row].Intervals).list)

\* the form as handle_modal_state resets it: "", default_categories[0],
\* "", "", add-interval.n_clicks 0 and no interval component
DefaultForm == Form("", DefaultCategory, "", "", <<>>)

\* every output left as it is
no_update == [no_update |-> TRUE]

\* handle_modal_state: the outputs modal.is_open, the form's values and
\* edit-mode-store.data for each trigger; a trigger "tasks-table" is a click
\* on the cell of row `row` and column `column_id` of `data`, and it is an
\* edit click when the column is the actions column.  active_cell is kept
\* while the edit form is open, the only time a callback reads it
handle_modal_state(trigger, data, row, column_id) ==
    IF trigger = "open-modal"
    THEN [is_open |-> TRUE, edit_mode |-> FALSE, active_cell |-> 0,
          form |-> DefaultForm]
    ELSE IF trigger \in {"close-modal", "submit-button"}
    THEN [is_open |-> FALSE, edit_mode |-> FALSE, active_cell |-> 0,
          form |-> DefaultForm]
    ELSE IF trigger = "tasks-table" /\ row # 0 /\ column_id = "actions"
    THEN [is_open |-> TRUE, edit_mode |-> TRUE, active_cell |-> row,
          form |-> LoadedForm(data, row)]
    ELSE no_update

\* handle_submit, the loop over zip(interval_locs, interval_starts,
\* interval_ends): the components with all three values filled, in order
MutSubmittedIntervals(components) ==
    SelectSeq(components,
              LAMBDA c : Filled(c.Location) /\ Filled(c.Start))
SubmittedIntervals(components) ==
    SelectSeq(components,
              LAMBDA c : Filled(c.Location) /\ Filled(c.Start) /\ Filled(c.End))

\* what a callback did: the store afterwards, the store call it issued, the
\* branch it returned from, and the rows returned (none with no_update)
Answer(d, c, path, returned) ==
    [db |-> d, call |-> c, path |-> path, returned |-> returned]

StoreCall(op, key, intervals, out) ==
    [op |-> op, key |-> key,
     wrote |-> IF out.raised \/ (op = "update_item" /\ ~out.found)
               THEN None ELSE intervals,
     raised |-> out.raised, found |-> out.found, item_id |-> out.item_id]

NoStoreCall ==
    [op |-> "none", key |-> "", wrote |-> None, raised |-> FALSE,
     found |-> FALSE, item_id |-> 0]

\* handle_submit (n_clicks is truthy); active_cell = 0 stands for None
Muthandle_submit(d, form, current_data, active_cell, is_edit_mode, fault) ==
    LET intervals == Given(SubmittedIntervals(form.components))
        name      == IF Filled(form.name) THEN form.name ELSE "New Task"
        category  == IF Filled(form.category) THEN form.category ELSE DefaultCategory
        owner     == IF Filled(form.owner) THEN form.owner ELSE ""
        notes     == IF Filled(form.notes) THEN form.notes ELSE ""
    IN  IF is_edit_mode /\ active_cell > 1
        THEN IF active_cell > Len(current_data)
             THEN \* current_data[row_index] raises IndexError
                  Answer(d, NoStoreCall, "except", current_data)
             ELSE LET old_name == current_data[active_cell].Name
                      out == update_item(d, old_name, name, category, owner,
                                         notes, intervals, fault)
                  IN  IF out.raised
                      THEN Answer(out.db, StoreCall("update_item", old_name, intervals, out),
                                  "except", current_data)
                      ELSE Answer(out.db, StoreCall("update_item", old_name, intervals, out),
                                  "updated", TableRows(get_all_items(out.db)))
        ELSE LET out == add_item(d, name, category, owner, notes, intervals, fault)
             IN  IF out.raised
                 THEN Answer(out.db, StoreCall("add_item", name, intervals, out),
                             "except", current_data)
                 ELSE Answer(out.db, StoreCall("add_item", name, intervals, out),
                             "added", TableRows(get_all_items(out.db)))
handle_submit(d, form, current_data, active_cell, is_edit_mode, fault) ==
    LET intervals == Given(SubmittedIntervals(form.components))
        name      == IF Filled(form.name) THEN form.name ELSE "New Task"
        category  == IF Filled(form.category) THEN form.category ELSE DefaultCategory
        owner     == IF Filled(form.owner) THEN form.owner ELSE ""
        notes     == IF Filled(form.notes) THEN form.notes ELSE ""
    IN  IF is_edit_mode /\ active_cell # 0
        THEN IF active_cell > Len(current_data)
             THEN \* current_data[row_index] raises IndexError
                  Answer(d, NoStoreCall, "except", current_data)
             ELSE LET old_name == current_data[active_cell].Name
                      out == update_item(d, old_name, name, category, owner,
                                         notes, intervals, fault)
                  IN  IF out.raised
                      THEN Answer(out.db, StoreCall("update_item", old_name, intervals, out),
                                  "except", current_data)
                      ELSE Answer(out.db, StoreCall("update_item", old_name, intervals, out),
                                  "updated", TableRows(get_all_items(out.db)))
        ELSE LET out == add_item(d, name, category, owner, notes, intervals, fault)
             IN  IF out.raised
                 THEN Answer(out.db, StoreCall("add_item", name, intervals, out),
                             "except", current_data)
                 ELSE Answer(out.db, StoreCall("add_item", name, intervals, out),
                             "added", TableRows(get_all_items(out.db)))

\* row in current_data
In(row, data) == \E i \in 1..Len(data) : data[i] = row

\* handle_row_deletion
handle_row_deletion(d, current_data, previous_data, fault) ==
    IF previous_data = <<>> \/ current_data = <<>>
    THEN Answer(d, NoStoreCall, "no_update", <<>>)
    ELSE IF Len(current_data) < Len(previous_data)
    THEN LET missing == {i \in 1..Len(previous_data) :
                            ~In(previous_data[i], current_data)}
         IN  IF missing = {}
             THEN \* next() of an exhausted generator raises StopIteration
                  Answer(d, NoStoreCall, "except", current_data)
             ELSE LET deleted_row ==
                          previous_data[CHOOSE i \in missing :
                                           \A j \in missing : i <= j]
                      out == delete_item(d, deleted_row.Name, fault)
                  IN  IF out.raised
                      THEN Answer(out.db, StoreCall("delete_item", deleted_row.Name, None, out),
                                  "except", current_data)
                      ELSE Answer(out.db, StoreCall("delete_item", deleted_row.Name, None, out),
                                  "deleted", TableRows(get_all_items(out.db)))
    ELSE Answer(d, NoStoreCall, "no_update", <<>>)

\* handle_table_edit: json.loads(curr_row["Intervals"]) if
\* curr_row["Intervals"] else []; a str from text encoded twice is iterated
\* by update_item character by character and its subscript raises TypeError
EditedIntervals(text) ==
    IF ~Truthy(text) THEN [ok |-> TRUE, list |-> <<>>]
    ELSE IF json_loads(text).ok /\ json_loads(text).kind = "list"
         THEN [ok |-> TRUE, list |-> json_loads(text).v]
         ELSE [ok |-> FALSE, list |-> <<>>]

\* handle_table_edit
Muthandle_table_edit(d, current_data, previous_data, fault) ==
    IF previous_data = <<>> \/ current_data = <<>>
    THEN Answer(d, NoStoreCall, "no_update", <<>>)
    ELSE LET n == IF Len(current_data) < Len(previous_data)
                  THEN Len(current_data) ELSE Len(previous_data)
             differ == {i \in 1..n : current_data[i] # previous_data[i]}
         IN  IF differ = {}
             THEN Answer(d, NoStoreCall, "unchanged", current_data)
             ELSE LET i == CHOOSE i \in differ : \A j \in differ : j <= i
                      curr_row == current_data[i]
                      prev_row == previous_data[i]
                      loaded == EditedIntervals(curr_row.Intervals)
                      out == update_item(d, prev_row.Name, curr_row.Name,
                                         curr_row.Category, curr_row.Assigned_Owner,
                                         curr_row.Notes, Given(loaded.list), fault)
                  IN  IF ~loaded.ok
                      THEN Answer(d, NoStoreCall, "except", previous_data)
                      ELSE IF out.raised
                      THEN Answer(out.db, StoreCall("update_item", prev_row.Name,
                                                    Given(loaded.list), out),
                                  "except", previous_data)
                      ELSE Answer(out.db, StoreCall("update_item", prev_row.Name,
                                                    Given(loaded.list), out),
                                  "updated", TableRows(get_all_items(out.db)))
handle_table_edit(d, current_data, previous_data, fault) ==
    IF previous_data = <<>> \/ current_data = <<>>
    THEN Answer(d, NoStoreCall, "no_update", <<>>)
    ELSE LET n == IF Len(current_data) < Len(previous_data)
                  THEN Len(current_data) ELSE Len(previous_data)
             differ == {i \in 1..n : current_data[i] # previous_data[i]}
         IN  IF differ = {}
             THEN Answer(d, NoStoreCall, "unchanged", current_data)
             ELSE LET i == CHOOSE i \in differ : \A j \in differ : i <= j
                      curr_row == current_data[i]
                      prev_row == previous_data[i]
                      loaded == EditedIntervals(curr_row.Intervals)
                      out == update_item(d, prev_row.Name, curr_row.Name,
                                         curr_row.Category, curr_row.Assigned_Owner,
                                         curr_row.Notes, Given(loaded.list), fault)
                  IN  IF ~loaded.ok
                      THEN Answer(d, NoStoreCall, "except", previous_data)
                      ELSE IF out.raised
                      THEN Answer(out.db, StoreCall("update_item", prev_row.Name,
                                                    Given(loaded.list), out),
                                  "except", previous_data)
                      ELSE Answer(out.db, StoreCall("update_item", prev_row.Name,
                                                    Given(loaded.list), out),
                                  "updated", TableRows(get_all_items(out.db)))

-----------------------------------------------------------------------------
(* Inputs *)

\* the four scalar arguments name, category, owner, notes
Scalars(name, category, owner, notes) ==
    [name |-> name, category |-> category, owner |-> owner, notes |-> notes]

ScalarInputs ==
    {Scalars("Sofa", "Furniture", "Andy", ""),
     Scalars("Lamp", "Tools", "", "fragile")}

NameInputs == {"Sofa", "Lamp"}

\* interval lists a caller passes: complete dicts and one that lacks a key
IntervalLists == SeqsUpTo({Hawaii, Sydney, NoEnd}, MaxIntervals)

IntervalArgs == {None} \cup {Given(L) : L \in IntervalLists}

\* the Intervals cell of a snapshot row: the two encodings of no intervals,
\* arrays of complete dicts (with values or nulls), an array whose second
\* dict lacks a key, text that is not JSON, and an array encoded twice
IntervalTexts ==
    {Text("empty", <<>>),
     Text("array", <<>>),
     Text("array", <<Hawaii>>),
     Text("array", <<Hawaii, Sydney>>),
     Text("array", <<Nulls>>),
     Text("array", <<Sydney, NoEnd>>),
     Text("bad", <<>>),
     Text("string", <<Sydney>>)}

\* snapshot rows given to update_gantt
TaskInputs ==
    {TableRow(Row(f.name, f.category, f.owner, f.notes, text)) :
        f \in ScalarInputs, text \in IntervalTexts}

\* what the user types into the form: a filled form or a blank one, with
\* interval components that are complete or lack the end date
Unfilled == Interval("Hawaii", "2023-09-01", NULL)

FormInputs ==
    {Form(f.name, f.category, f.owner, f.notes, components) :
        f \in {Scalars("Sofa", "Furniture", "Andy", ""), Scalars("", "", "", "")},
        components \in SeqsUpTo({Hawaii, Unfilled}, MaxIntervals)}

\* what the user types into a table cell
CellEdits == {[column |-> "Name", value |-> "Lamp"]}

\* the execute() call at which storage fails; 0: storage does not fail.
\* The third execute() is the second INSERT of add_item, the DELETE FROM
\* intervals of update_item and the DELETE FROM items of delete_item: each
\* comes after a statement that has already changed a table
Faults == {0, 3}

-----------------------------------------------------------------------------
(* Values of the variables a specification does not use *)

NoCall == NoStoreCall

NoGantt == [called |-> FALSE, gantt_data |-> <<>>, figure |-> FALSE]
NoModal == [is_open |-> FALSE, edit_mode |-> FALSE, active_cell |-> 0,
            form |-> Form(NULL, DefaultCategory, NULL, NULL, <<>>)]
NoEv    == [data |-> <<>>, data_previous |-> <<>>]
NoPass  == [callback |-> "none", path |-> "none", resubmitted |-> FALSE]

-----------------------------------------------------------------------------
(* SpecStore: the MoveDatabase methods called directly *)

\* room left in the AUTOINCREMENT counters for one more call
RoomFor(d, newItems, newIntervals) ==
    /\ d.sqlite_sequence.items + newItems <= MaxItemId
    /\ d.sqlite_sequence.intervals + newIntervals <= MaxIntervalId

\* the record of a call: the method, its name argument, the outcome, and
\* the `intervals` argument of an add_item or update_item that committed
\* its writes (None for every other call)
Called(op, key, intervals, out) == StoreCall(op, key, intervals, out)

SessionIdle == UNCHANGED <<tasks, gantt, table, modal, ev, pending, pass>>

AddItem ==
    \E f \in ScalarInputs, intervals \in IntervalArgs, fault \in Faults :
        /\ RoomFor(db, 1, Len(intervals.list))
        /\ LET out == add_item(db, f.name, f.category, f.owner, f.notes,
                               intervals, fault)
           IN  /\ db' = out.db
               /\ call' = Called("add_item", f.name, intervals, out)
        /\ SessionIdle

UpdateItem ==
    \E old_name \in NameInputs,
       f \in ScalarInputs, intervals \in IntervalArgs, fault \in Faults :
        /\ RoomFor(db, 0, Len(intervals.list))
        /\ LET out == update_item(db, old_name, f.name, f.category, f.owner,
                                  f.notes, intervals, fault)
           IN  /\ db' = out.db
               /\ call' = Called("update_item", old_name, intervals, out)
        /\ SessionIdle

DeleteItem ==
    \E name \in NameInputs, fault \in Faults :
        /\ LET out == delete_item(db, name, fault)
           IN  /\ db' = out.db
               /\ call' = Called("delete_item", name, None, out)
        /\ SessionIdle

GetAllItems ==
    /\ call' = Called("get_all_items", "", None, Outcome(db, FALSE, FALSE, 0))
    /\ UNCHANGED db
    /\ SessionIdle

InitStore ==
    /\ db = EmptyDb
    /\ call = NoCall
    /\ tasks = <<>>
    /\ gantt = NoGantt
    /\ table = <<>>
    /\ modal = NoModal
    /\ ev = NoEv
    /\ pending = {}
    /\ pass = NoPass

NextStore == AddItem \/ UpdateItem \/ DeleteItem \/ GetAllItems

SpecStore == InitStore /\ [][NextStore]_vars

-----------------------------------------------------------------------------
(* SpecWrites: the three writing methods of MoveDatabase called in any order,
   with the `intervals` arguments that tell their paths apart: None, a list
   that is inserted, and a list whose second dict raises KeyError *)

WriteArgs == {None, Given(<<Hawaii>>), Given(<<Hawaii, NoEnd>>)}

AddItemWrite ==
    \E f \in ScalarInputs, intervals \in WriteArgs, fault \in Faults :
        /\ RoomFor(db, 1, Len(intervals.list))
        /\ LET out == add_item(db, f.name, f.category, f.owner, f.notes,
                               intervals, fault)
           IN  /\ db' = out.db
               /\ call' = Called("add_item", f.name, intervals, out)
        /\ SessionIdle

UpdateItemWrite ==
    \E old_name \in NameInputs,
       f \in ScalarInputs, intervals \in WriteArgs, fault \in Faults :
        /\ RoomFor(db, 0, Len(intervals.list))
        /\ LET out == update_item(db, old_name, f.name, f.category, f.owner,
                                  f.notes, intervals, fault)
           IN  /\ db' = out.db
               /\ call' = Called("update_item", old_name, intervals, out)
        /\ SessionIdle

NextWrites == AddItemWrite \/ UpdateItemWrite \/ DeleteItem

SpecWrites == InitStore /\ [][NextWrites]_vars

-----------------------------------------------------------------------------
(* SpecGantt: update_gantt applied to a snapshot *)

StoreIdle == UNCHANGED <<db, call>>

\* the table's data changes: Input("tasks-table", "data") fires update_gantt
UpdateGantt ==
    /\ ~gantt.called
    /\ gantt' = update_gantt(tasks)
    /\ UNCHANGED <<tasks, table, modal, ev, pending, pass>>
    /\ StoreIdle

InitGantt ==
    /\ db = EmptyDb
    /\ call = NoCall
    /\ tasks \in SeqsUpTo(TaskInputs, MaxTasks)
    /\ gantt = NoGantt
    /\ table = <<>>
    /\ modal = NoModal
    /\ ev = NoEv
    /\ pending = {}
    /\ pass = NoPass

NextGantt == UpdateGantt

SpecGantt == InitGantt /\ [][NextGantt]_vars

-----------------------------------------------------------------------------
(* SpecNotes: the note methods, and delete_item, on a store that holds items *)

NoteTexts == {"call movers", "buy boxes"}

\* the stores the methods are called on: empty, one item with an interval,
\* and that item followed by one without intervals
SofaStore == add_item(EmptyDb, "Sofa", "Furniture", "Andy", "",
                      Given(<<Hawaii>>), 0).db
SofaLampStore == add_item(SofaStore, "Lamp", "Tools", "", "fragile", None, 0).db
NoteStores == {EmptyDb, SofaStore, SofaLampStore}

\* CURRENT_TIMESTAMP has a resolution of one second: the time of a call is
\* that of the latest note or later
Times(d) ==
    IF d.notes = <<>> THEN {1}
    ELSE LET stamps == {d.notes[i].timestamp : i \in 1..Len(d.notes)}
             latest == CHOOSE t \in stamps : \A u \in stamps : u <= t
         IN  {latest, latest + 1}

NoteIds(d) == {d.notes[i].id : i \in 1..Len(d.notes)}

SaveNotes ==
    \E notes \in NoteTexts :
        /\ db' = save_notes(db, notes)
        /\ call' = Called("save_notes", notes, None, Outcome(db', FALSE, FALSE, 0))
        /\ SessionIdle

\* a click on "Save Notes"
HandleNotes ==
    \E notes \in NoteTexts :
        LET a == handle_notes(db, 1, notes)
        IN  /\ db' = a.db
            /\ call' = Called("handle_notes", notes, None,
                              Outcome(a.db, a.raised, FALSE, 0))
            /\ SessionIdle

AddNote ==
    \E note_text \in NoteTexts, now \in Times(db) :
        /\ db.sqlite_sequence.notes + 1 <= MaxNoteId
        /\ db' = add_note(db, note_text, now)
        /\ call' = Called("add_note", note_text, None,
                          Outcome(db', FALSE, FALSE, db'.sqlite_sequence.notes))
        /\ SessionIdle

UpdateNote ==
    \E note_id \in 1..MaxNoteId, new_text \in NoteTexts :
        /\ db' = update_note(db, note_id, new_text)
        /\ call' = Called("update_note", new_text, None,
                          Outcome(db', FALSE, note_id \in NoteIds(db), note_id))
        /\ SessionIdle

DeleteNote ==
    \E note_id \in 1..MaxNoteId :
        /\ db' = delete_note(db, note_id)
        /\ call' = Called("delete_note", "", None,
                          Outcome(db', FALSE, note_id \in NoteIds(db), note_id))
        /\ SessionIdle

GetAllNotes ==
    /\ call' = Called("get_all_notes", "", None, Outcome(db, FALSE, FALSE, 0))
    /\ UNCHANGED db
    /\ SessionIdle

InitNotes ==
    /\ db \in NoteStores
    /\ call = NoCall
    /\ tasks = <<>>
    /\ gantt = NoGantt
    /\ table = <<>>
    /\ modal = NoModal
    /\ ev = NoEv
    /\ pending = {}
    /\ pass = NoPass

NextNotes ==
    \/ SaveNotes
    \/ HandleNotes
    \/ AddNote
    \/ UpdateNote
    \/ DeleteNote
    \/ GetAllNotes
    \/ DeleteItem
    \/ GetAllItems

SpecNotes == InitNotes /\ [][NextNotes]_vars

-----------------------------------------------------------------------------
(* Spec: one browser session *)

\* the user's edit of one cell of the table
WithCell(data, row, edit) ==
    [data EXCEPT ![row] =
        IF edit.column = "Name" THEN [@ EXCEPT !.Name = edit.value]
        ELSE IF edit.column = "Category" THEN [@ EXCEPT !.Category = edit.value]
        ELSE IF edit.column = "Assigned_Owner"
        THEN [@ EXCEPT !.Assigned_Owner = edit.value]
        ELSE [@ EXCEPT !.Notes = edit.value]]

\* the longest interval list a row of the table can make a callback insert
LongestList(data) ==
    IF data = <<>> THEN 0
    ELSE LET lens == {Len(EditedIntervals(data[i].Intervals).list) : i \in 1..Len(data)}
         IN  CHOOSE n \in lens : \A m \in lens : m <= n

Passed(callback, path, resubmitted) ==
    [callback |-> callback, path |-> path, resubmitted |-> resubmitted]

\* "Add New Task"
OpenModal ==
    /\ pending = {}
    /\ ~modal.is_open
    /\ modal' = handle_modal_state("open-modal", table, 0, "")
    /\ pass' = NoPass
    /\ UNCHANGED <<db, call, tasks, gantt, table, ev, pending>>

\* "Cancel"
CloseModal ==
    /\ modal.is_open
    /\ modal' = handle_modal_state("close-modal", table, 0, "")
    /\ pass' = NoPass
    /\ UNCHANGED <<db, call, tasks, gantt, table, ev, pending>>

\* a click on the actions cell of a row
ClickActions ==
    \E row \in 1..Len(table) :
        /\ pending = {}
        /\ ~modal.is_open
        /\ modal' = handle_modal_state("tasks-table", table, row, "actions")
        /\ pass' = NoPass
        /\ UNCHANGED <<db, call, tasks, gantt, table, ev, pending>>

\* a click on a cell of another column: handle_modal_state fires on
\* active_cell and updates nothing
ClickCell ==
    \E row \in 1..Len(table) :
        /\ pending = {}
        /\ ~modal.is_open
        /\ LET out == handle_modal_state("tasks-table", table, row, "Name")
           IN  modal' = IF out = no_update THEN modal ELSE out
        /\ pass' = Passed("handle_modal_state", "no_update", FALSE)
        /\ UNCHANGED <<db, call, tasks, gantt, table, ev, pending>>

\* "Submit": handle_submit and handle_modal_state both fire on the click and
\* read the state the browser held at the click.  In edit mode the form
\* is what the edit click loaded, or what the user typed over it
Submit ==
    \E form \in FormInputs \cup
                (IF modal.edit_mode /\ modal.active_cell \in 1..Len(table)
                 THEN {LoadedForm(table, modal.active_cell)} ELSE {}),
       fault \in Faults :
        /\ modal.is_open
        /\ RoomFor(db, IF modal.edit_mode THEN 0 ELSE 1,
                   Len(SubmittedIntervals(form.components)))
        /\ LET a == handle_submit(db, form, table, modal.active_cell,
                                  modal.edit_mode, fault)
           IN  /\ db' = a.db
               /\ table' = a.returned
               /\ pass' = Passed("handle_submit", a.path,
                                 /\ modal.edit_mode
                                 /\ modal.active_cell \in 1..Len(table)
                                 /\ form = LoadedForm(table, modal.active_cell))
        /\ modal' = handle_modal_state("submit-button", table, 0, "")
        /\ UNCHANGED <<call, tasks, gantt, ev, pending>>

\* the user changes the table: the DataTable sets data, data_previous and
\* data_timestamp together, which dispatches handle_row_deletion (Input data)
\* and handle_table_edit (Input data_timestamp) with the same State values
TableChange(data) ==
    /\ pending = {}
    /\ ~modal.is_open
    /\ RoomFor(db, 0, LongestList(data))
    /\ ev' = [data |-> data, data_previous |-> table]
    /\ table' = data
    /\ pending' = {"handle_row_deletion", "handle_table_edit"}
    /\ pass' = NoPass
    /\ UNCHANGED <<db, call, tasks, gantt, modal>>

\* the user types into a cell of an editable column
EditCell ==
    \E row \in 1..Len(table), edit \in CellEdits :
        TableChange(WithCell(table, row, edit))

\* the user deletes a row (row_deletable)
DeleteRow ==
    \E row \in 1..Len(table) : TableChange(RemoveAt(table, row))

\* a dispatched callback answers; rows it returns replace tasks-table.data.
\* The State values of the change are dropped once both have answered
Answered(callback, a) ==
    /\ db' = a.db
    /\ table' = IF a.path = "no_update" THEN table ELSE a.returned
    /\ pending' = pending \ {callback}
    /\ ev' = IF pending \ {callback} = {} THEN NoEv ELSE ev
    /\ pass' = Passed(callback, a.path, FALSE)
    /\ UNCHANGED <<call, tasks, gantt, modal>>

RowDeletion ==
    \E fault \in Faults :
        /\ "handle_row_deletion" \in pending
        /\ Answered("handle_row_deletion",
                    handle_row_deletion(db, ev.data, ev.data_previous, fault))

TableEdit ==
    \E fault \in Faults :
        /\ "handle_table_edit" \in pending
        /\ Answered("handle_table_edit",
                    handle_table_edit(db, ev.data, ev.data_previous, fault))

Init ==
    /\ db = EmptyDb
    /\ call = NoCall
    /\ tasks = <<>>
    /\ gantt = NoGantt
    /\ table = TableRows(get_all_items(EmptyDb))
    /\ modal = NoModal
    /\ ev = NoEv
    /\ pending = {}
    /\ pass = NoPass

Next ==
    \/ OpenModal
    \/ CloseModal
    \/ ClickActions
    \/ ClickCell
    \/ Submit
    \/ EditCell
    \/ DeleteRow
    \/ RowDeletion
    \/ TableEdit

Spec == Init /\ [][Next]_vars

-----------------------------------------------------------------------------
(* SpecCallbacks: one call of handle_submit or handle_table_edit on a store
   and with the values the browser can send; ev holds the State values of
   the call *)

\* two items of the same name, the second with an interval
TwinStore ==
    add_item(add_item(EmptyDb, "New Task", DefaultCategory, "", "", Given(<<>>), 0).db,
             "New Task", DefaultCategory, "", "", Given(<<Hawaii>>), 0).db

CallbackStores == NoteStores \cup {TwinStore}

\* what the user types into the form; the components are complete, lack
\* the end date, or have no location chosen
NoLocation == Interval(NULL, "2023-09-01", "2023-09-03")

SubmitForms ==
    {Form(f.name, f.category, f.owner, f.notes, components) :
        f \in {Scalars("Sofa", "Furniture", "Andy", ""), Scalars("", "", "", "")},
        components \in SeqsUpTo({Hawaii, Sydney, Unfilled, NoLocation},
                                MaxIntervals)}

\* edit-mode-store and active_cell as handle_modal_state leaves them when
\* the form is open: after "Add New Task" or after an edit click on a row
OpenForms(data) ==
    {handle_modal_state("open-modal", data, 0, "")}
        \cup {handle_modal_state("tasks-table", data, row, "actions") :
                  row \in 1..Len(data)}

\* what the user pastes over the cells of a row (editable columns)
PasteEdits ==
    {[column |-> "Name", value |-> "Desk"],
     [column |-> "Notes", value |-> "heavy"]}

\* the table after a paste over one or several rows
Pasted(data) ==
    {current \in [1..Len(data) -> {WithCell(data, row, edit)[row] :
                                       row \in 1..Len(data), edit \in PasteEdits}
                                  \cup {data[row] : row \in 1..Len(data)}] :
        \A row \in 1..Len(data) :
            \/ current[row] = data[row]
            \/ \E edit \in PasteEdits : current[row] = WithCell(data, row, edit)[row]}

\* the table after the user's deletion of a row
Deleted(data) == {RemoveAt(data, row) : row \in 1..Len(data)}

\* the State values of a handle_submit call
SubmitState(form, data, active_cell, is_edit_mode) ==
    [form |-> form, data |-> data, data_previous |-> <<>>,
     active_cell |-> active_cell, is_edit_mode |-> is_edit_mode]

\* the State values of a handle_table_edit call
EditState(current_data, previous_data) ==
    [form |-> Form("", "", "", "", <<>>), data |-> current_data,
     data_previous |-> previous_data, active_cell |-> 0, is_edit_mode |-> FALSE]

SubmitCall ==
    \E m \in OpenForms(table), form \in SubmitForms, fault \in Faults :
        /\ pass = NoPass
        /\ RoomFor(db, IF m.edit_mode THEN 0 ELSE 1,
                   Len(SubmittedIntervals(form.components)))
        /\ LET a == handle_submit(db, form, table, m.active_cell,
                                  m.edit_mode, fault)
           IN  /\ db' = a.db
               /\ call' = a.call
               /\ table' = a.returned
               /\ pass' = Passed("handle_submit", a.path, FALSE)
        /\ ev' = SubmitState(form, table, m.active_cell, m.edit_mode)
        /\ UNCHANGED <<tasks, gantt, modal, pending>>

TableEditCall ==
    \E current \in Pasted(table) \cup Deleted(table), fault \in Faults :
        /\ pass = NoPass
        /\ RoomFor(db, 0, LongestList(current))
        /\ LET a == handle_table_edit(db, current, table, fault)
           IN  /\ db' = a.db
               /\ call' = a.call
               /\ table' = IF a.path = "no_update" THEN current ELSE a.returned
               /\ pass' = Passed("handle_table_edit", a.path, FALSE)
        /\ ev' = EditState(current, table)
        /\ UNCHANGED <<tasks, gantt, modal, pending>>

InitCallbacks ==
    /\ db \in CallbackStores
    /\ call = NoCall
    /\ tasks = <<>>
    /\ gantt = NoGantt
    /\ table = TableRows(get_all_items(db))
    /\ modal = NoModal
    /\ ev = EditState(<<>>, <<>>)
    /\ pending = {}
    /\ pass = NoPass

NextCallbacks ==
    \/ SubmitCall
    \/ TableEditCall

SpecCallbacks == InitCallbacks /\ [][NextCallbacks]_vars

-----------------------------------------------------------------------------
(* SpecDev: the dev prototype (item_planning_dev.py), whose table rows
   carry one Location, Start and End each and live in the browser only *)

\* a row of the prototype's table
DevRow(name, category, owner, notes, location, start, end) ==
    [Name |-> name, Category |-> category, Assigned_Owner |-> owner,
     Notes |-> notes, Location |-> location, Start |-> start, End |-> end]

\* the prototype's initial_data
initial_data ==
    <<DevRow("Hardtail mountina Bike", "recreation", "Andy", "Living room sofa",
             "Hawaii", "2023-09-01", "2023-09-03"),
      DevRow("Dining Set", "kitchen", "Andy", "Table and chairs",
             "Connecticut", "2023-09-03", "2023-09-05")>>

\* default_categories[0] and default_locations[0] of the prototype
DevDefaultCategory == "furniture"
DevDefaultLocation == "Hawaii"

\* n_clicks: None, or a count of clicks
NoClicks == [given |-> FALSE, n |-> 0]
Clicks(n) == [given |-> TRUE, n |-> n]

\* truthiness of n_clicks: None and 0 are false
Clicked(n_clicks) == n_clicks.given /\ n_clicks.n # 0

\* add_task; `today` is pd.to_datetime("today").date().isoformat()
Mutadd_task(n_clicks, name, category, owner, notes, location, start, end, current_data, today) ==
    IF Clicked(n_clicks)
    THEN <<DevRow(IF Filled(name) THEN name ELSE "New Task",
                  IF Filled(category) THEN category ELSE DevDefaultCategory,
                  IF Filled(owner) THEN owner ELSE "",
                  IF Filled(notes) THEN notes ELSE "",
                  IF Filled(location) THEN location ELSE DevDefaultLocation,
                  IF Filled(start) THEN start ELSE today,
                  IF Filled(end) THEN end ELSE today)>> \o current_data
    ELSE current_data
add_task(n_clicks, name, category, owner, notes, location, start, end, current_data, today) ==
    IF Clicked(n_clicks)
    THEN Append(current_data,
                DevRow(IF Filled(name) THEN name ELSE "New Task",
                       IF Filled(category) THEN category ELSE DevDefaultCategory,
                       IF Filled(owner) THEN owner ELSE "",
                       IF Filled(notes) THEN notes ELSE "",
                       IF Filled(location) THEN location ELSE DevDefaultLocation,
                       IF Filled(start) THEN start ELSE today,
                       IF Filled(end) THEN end ELSE today))
    ELSE current_data

\* what the prototype's form holds at the click: untouched inputs (None),
\* emptied inputs (""), a filled form, and forms filled in part
DevForms ==
    {DevRow(NULL, NULL, NULL, NULL, NULL, NULL, NULL),
     DevRow("", NULL, "", "", NULL, NULL, NULL),
     DevRow("Desk", "tools", "Andy", "heavy", "Sydney", "2023-09-05", "2023-09-07"),
     DevRow("Desk", NULL, NULL, "heavy", NULL, "2023-09-05", NULL),
     DevRow(NULL, "tools", "Andy", NULL, "Sydney", NULL, "2023-09-07")}

\* submit-task.n_clicks: None, 0 and a count of clicks
ClickCounts == {NoClicks, Clicks(0), Clicks(1)}

Todays == {"2023-09-09"}

\* the Input and State values of an add_task call
DevState(n_clicks, form, data) ==
    [n_clicks |-> n_clicks, form |-> form, data |-> data]

AddTask ==
    \E n_clicks \in ClickCounts, form \in DevForms, today \in Todays :
        /\ Len(table) <= MaxTasks
        /\ table' = add_task(n_clicks, form.Name, form.Category,
                             form.Assigned_Owner, form.Notes, form.Location,
                             form.Start, form.End, table, today)
        /\ ev' = DevState(n_clicks, form, table)
        /\ pass' = Passed("add_task",
                          IF Clicked(n_clicks) THEN "added" ELSE "unchanged",
                          FALSE)
        /\ UNCHANGED <<db, call, tasks, gantt, modal, pending>>

\* the table holds initial_data, or what the user left of it by deleting
\* rows (row_deletable)
InitDev ==
    /\ db = EmptyDb
    /\ call = NoCall
    /\ tasks = <<>>
    /\ gantt = NoGantt
    /\ table \in {initial_data, <<initial_data[1]>>, <<initial_data[2]>>, <<>>}
    /\ modal = NoModal
    /\ ev = DevState(NoClicks, DevRow(NULL, NULL, NULL, NULL, NULL, NULL, NULL), <<>>)
    /\ pending = {}
    /\ pass = NoPass

NextDev == AddTask

SpecDev == InitDev /\ [][NextDev]_vars

-----------------------------------------------------------------------------
(* Properties of the store, checked under SpecStore *)

\* the interval rows of an item as dicts, in rowid order
StoredIntervals(d, item_id) ==
    LET ivs == IntervalsOf(d, item_id)
    IN  [k \in 1..Len(ivs) |->
            Interval(ivs[k].location, ivs[k].start_date, ivs[k].end_date)]

ItemIds(d) == {d.items[i].id : i \in 1..Len(d.items)}

PositionOf(d, item_id) == CHOOSE i \in 1..Len(d.items) : d.items[i].id = item_id

\* C1 - cascade delete: a delete_item(name) on a store holding an item of
\* that name resolves to such an item; afterwards no item row has its id, no
\* interval row has its id as item_id, and get_all_items() is the former
\* result without the row projected from it.
C1_CascadeDelete ==
    [][(/\ call'.op = "delete_item"
        /\ ~call'.raised
        /\ \E i \in 1..Len(db.items) : db.items[i].name = call'.key)
       => (/\ call'.found
           /\ \E i \in 1..Len(db.items) :
                 /\ db.items[i].id = call'.item_id
                 /\ db.items[i].name = call'.key
           /\ call'.item_id \notin ItemIds(db')
           /\ \A k \in 1..Len(db'.intervals) :
                 db'.intervals[k].item_id # call'.item_id
           /\ get_all_items(db') =
                 RemoveAt(get_all_items(db), PositionOf(db, call'.item_id)))]_vars

\* a delete that resolved while interval rows had been written, and that
\* left another item of the same name behind
C1_Witness ==
    /\ call.op = "delete_item"
    /\ call.found
    /\ ~call.raised
    /\ db.sqlite_sequence.intervals >= 2
    /\ db.intervals = <<>>
    /\ \E i \in 1..Len(db.items) : db.items[i].name = call.key

\* C2 - replace wholesale: after an update_item that resolved and was given
\* a list L, the item's interval rows are exactly L in order and none of
\* them is a row from before the call; given None, its rows are unchanged.
C2_ReplaceWholesale ==
    [][(/\ call'.op = "update_item"
        /\ call'.found
        /\ ~call'.raised)
       => IF call'.wrote.given
          THEN /\ StoredIntervals(db', call'.item_id) = call'.wrote.list
               /\ \A k \in 1..Len(db'.intervals) :
                     db'.intervals[k].item_id = call'.item_id
                        => db'.intervals[k].id > db.sqlite_sequence.intervals
          ELSE IntervalsOf(db', call'.item_id) = IntervalsOf(db, call'.item_id)]_vars

\* an update that replaced two interval rows written earlier by one row
C2_Witness ==
    /\ call.op = "update_item"
    /\ call.found
    /\ ~call.raised
    /\ call.wrote.given
    /\ Len(call.wrote.list) = 1
    /\ db.sqlite_sequence.intervals = 3
    /\ IntervalsOf(db, call.item_id) # <<>>
    /\ IntervalsOf(db, call.item_id)[1].id = 3

\* C3 - all or nothing: when add_item, update_item or delete_item raises,
\* the store is what it was before the call.
C3_AllOrNothing ==
    [][(/\ call'.op \in {"add_item", "update_item", "delete_item"}
        /\ call'.raised)
       => db' = db]_vars

\* update_item raised after its UPDATE statement, on an item that has
\* interval rows and shares its name with another item
C3_Witness ==
    /\ call.op = "update_item"
    /\ call.raised
    /\ call.found
    /\ IntervalsOf(db, call.item_id) # <<>>
    /\ \E i \in 1..Len(db.items) :
          db.items[i].id # call.item_id /\ db.items[i].name = call.key

\* C7 - every row of get_all_items() encodes in Intervals exactly the
\* interval rows of its item: the empty list for an item without rows.
C7_IntervalsFieldIsStoredList ==
    \A i \in 1..Len(db.items) :
        get_all_items(db)[i].Intervals =
            json_dumps(StoredIntervals(db, db.items[i].id))

-----------------------------------------------------------------------------
(* Properties of the timeline, checked under SpecGantt *)

\* the Intervals cell decodes to a list of dicts that hold all three keys
WellFormed(task) ==
    /\ LoadIntervals(task.Intervals).ok
    /\ \A k \in 1..Len(LoadIntervals(task.Intervals).list) :
          HasKeys(LoadIntervals(task.Intervals).list[k])

\* the N timeline rows of a well-formed snapshot row, in interval order
Flattened(task) ==
    LET list == LoadIntervals(task.Intervals).list
    IN  [k \in 1..Len(list) |->
            [Name |-> task.Name, Category |-> task.Category,
             Assigned_Owner |-> task.Assigned_Owner, Notes |-> task.Notes,
             Location |-> list[k].Location, Start |-> list[k].Start,
             End |-> list[k].End]]

\* C6 - timeline flattening: gantt_data is, in snapshot order, the rows of
\* each snapshot row; a row whose Intervals decode to N well-formed dicts
\* contributes exactly its N flattened rows in interval order, none for N = 0.
C6_TimelineFlattening ==
    gantt.called =>
        gantt.gantt_data =
            Concat([i \in 1..Len(tasks) |->
                       IF WellFormed(tasks[i]) THEN Flattened(tasks[i])
                       ELSE TaskRows(tasks[i])])

\* a snapshot of a two-interval row and a row without intervals, flattened
\* to two timeline rows
C6_Witness ==
    /\ gantt.called
    /\ Len(tasks) = 2
    /\ \A i \in 1..Len(tasks) : WellFormed(tasks[i])
    /\ \E i \in 1..Len(tasks) : Len(Flattened(tasks[i])) = 2
    /\ \E i \in 1..Len(tasks) : Len(Flattened(tasks[i])) = 0
    /\ Len(gantt.gantt_data) = 2

\* C8 - malformed data isolation: with a row whose Intervals is not JSON at
\* any position, the timeline is the one of the snapshot without that row.
C8_MalformedIsolation ==
    gantt.called =>
        \A k \in 1..Len(tasks) :
            Unparseable(tasks[k]) =>
                gantt.gantt_data = update_gantt(RemoveAt(tasks, k)).gantt_data

\* an unparseable row ahead of a row that has timeline rows
C8_Witness ==
    /\ gantt.called
    /\ Len(tasks) = 2
    /\ Unparseable(tasks[1])
    /\ gantt.gantt_data # <<>>

\* C9 - a snapshot row whose Intervals cannot be fully decoded into
\* {Location, Start, End} dicts contributes no timeline row.
C9_UndecodableContributesNothing ==
    gantt.called =>
        gantt.gantt_data =
            Concat([i \in 1..Len(tasks) |->
                       IF WellFormed(tasks[i]) THEN Flattened(tasks[i])
                       ELSE <<>>])

-----------------------------------------------------------------------------
(* Properties of the session, checked under Spec *)

\* the snapshot the table shows when it is in step with the store
Snapshot(d) == TableRows(get_all_items(d))

\* the fields and the interval rows of the item at position i
StoredItem(d, i) ==
    [item |-> d.items[i], intervals |-> StoredIntervals(d, d.items[i].id)]

\* every item but the one at position `row` is what it was
OthersUnchanged(row) ==
    /\ Len(db'.items) = Len(db.items)
    /\ \A i \in 1..Len(db.items) :
          i # row => StoredItem(db', i) = StoredItem(db, i)

\* the row handle_table_edit takes for the edited one
FirstDiffering(current_data, previous_data) ==
    LET n == IF Len(current_data) < Len(previous_data)
             THEN Len(current_data) ELSE Len(previous_data)
        differ == {i \in 1..n : current_data[i] # previous_data[i]}
    IN  IF differ = {} THEN 0
        ELSE CHOOSE i \in differ : \A j \in differ : i <= j

\* this step is handle_submit answering for the edit form of a row of a
\* table that is in step with the store
SubmitsEdit ==
    /\ modal.is_open /\ modal.edit_mode
    /\ modal.active_cell \in 1..Len(table)
    /\ pass'.callback = "handle_submit"
    /\ table = Snapshot(db)

\* this step is handle_table_edit answering for a cell edit made on a table
\* that was in step with the store
AnswersCellEdit ==
    /\ "handle_table_edit" \in pending
    /\ pass'.callback = "handle_table_edit"
    /\ Len(ev.data) = Len(ev.data_previous)
    /\ ev.data_previous = Snapshot(db)

\* C4 - store/view synchronisation: whenever handle_submit,
\* handle_row_deletion or handle_table_edit has returned table data, on any
\* exit path, the returned rows are the projection get_all_items() of the
\* store at that moment.
C4_StoreViewSync ==
    /\ pass.callback \in {"handle_submit", "handle_row_deletion",
                          "handle_table_edit"}
    /\ pass.path # "no_update"
    => table = Snapshot(db)

\* C5 - round-trip idempotence: handle_submit in edit mode, resubmitting
\* the fields and intervals of a row of the snapshot S of the store as the
\* form loaded them, returns a snapshot identical to S.
C5_RoundTripIdempotence ==
    [][SubmitsEdit /\ pass'.resubmitted => table' = table]_vars

\* C10 - identity is never lost: an edit submitted for a snapshot row, by
\* handle_submit in edit mode or by handle_table_edit, leaves the fields
\* and the intervals of every item but the one the row was projected from
\* unchanged.
C10_IdentityNeverLost ==
    [][/\ SubmitsEdit => OthersUnchanged(modal.active_cell)
       /\ AnswersCellEdit =>
              OthersUnchanged(FirstDiffering(ev.data, ev.data_previous))]_vars

-----------------------------------------------------------------------------
(* Error handling and validation of the store, checked under SpecStore *)

\* C11 - update_item called with a key that resolves to no item raises
\* (NotFoundError) and leaves the store unchanged.
C11_UpdateUnknownRaises ==
    [][call'.op = "update_item" /\ ~call'.found
          => call'.raised /\ db' = db]_vars

\* C13 - the value delete_item returns when the key resolved differs from
\* the value it returns when the key did not resolve.
C13_DeleteResultDistinguishes ==
    \A k1 \in NameInputs, k2 \in NameInputs :
        Lookup(db, k1) # 0 /\ Lookup(db, k2) = 0
            => delete_item(db, k1, 0).returned # delete_item(db, k2, 0).returned

\* ISO dates compare as their texts do; the dates in use, in order
DateRank(date) ==
    CASE date = "2023-09-01" -> 1
      [] date = "2023-09-03" -> 3
      [] date = "2023-09-05" -> 5

\* C15 - every interval row of the store has start date <= end date.
C15_StartNotAfterEnd ==
    \A k \in 1..Len(db.intervals) :
        DateRank(db.intervals[k].start_date) <= DateRank(db.intervals[k].end_date)

-----------------------------------------------------------------------------
(* Error handling and validation of the callbacks, checked under Spec *)

\* the forms submitted with the name left empty
BlankNameForms == {form \in FormInputs : ~Filled(form.name)}

\* this step is handle_submit answering for the new-item form submitted
\* with an empty name
SubmitsBlankName ==
    /\ modal.is_open /\ ~modal.edit_mode
    /\ pass'.callback = "handle_submit"
    /\ \E form \in BlankNameForms, fault \in Faults :
          LET a == handle_submit(db, form, table, modal.active_cell, FALSE, fault)
          IN  db' = a.db /\ table' = a.returned /\ pass'.path = a.path

\* C14 - creating an item with an empty name fails and leaves the store
\* unchanged: handle_submit of the new-item form with an empty name never
\* adds an item row.
C14_EmptyNameRejected ==
    [][SubmitsBlankName => db' = db]_vars

\* this step is a callback returning from its except branch after the
\* store operation it issued has raised
StoreRaisedIn(callback) ==
    /\ pass'.callback = callback
    /\ pass'.path = "except"
    /\ callback = "handle_submit" => modal.is_open
    /\ callback = "handle_row_deletion" =>
          /\ callback \in pending
          /\ \E i \in 1..Len(ev.data_previous) : ~In(ev.data_previous[i], ev.data)
    /\ callback = "handle_table_edit" =>
          /\ callback \in pending
          /\ FirstDiffering(ev.data, ev.data_previous) # 0
          /\ EditedIntervals(
                 ev.data[FirstDiffering(ev.data, ev.data_previous)].Intervals).ok

\* C16 - when the store operation issued by handle_submit,
\* handle_row_deletion or handle_table_edit raises, the store is unchanged
\* and the callback returns the snapshot from before the user's edit.
C16_FailureReturnsPreviousSnapshot ==
    [][/\ StoreRaisedIn("handle_submit") => db' = db /\ table' = table
       /\ StoreRaisedIn("handle_row_deletion") =>
              db' = db /\ table' = ev.data_previous
       /\ StoreRaisedIn("handle_table_edit") =>
              db' = db /\ table' = ev.data_previous]_vars

-----------------------------------------------------------------------------
(* The encodings of "no intervals", checked under SpecGantt *)

EmptyString == Text("empty", <<>>)
EmptyArray  == Text("array", <<>>)

\* the snapshot with the Intervals of row i written in the other encoding
OtherEncoding(data, i) ==
    [data EXCEPT ![i].Intervals = IF @ = EmptyString THEN EmptyArray
                                  ELSE IF @ = EmptyArray THEN EmptyString
                                  ELSE @]

\* the snapshot in which row i still showed one interval
WithHawaii(data, i) ==
    [data EXCEPT ![i].Intervals = Text("array", <<Hawaii>>)]

\* a store holding one item per row of the snapshot, each with one interval
RECURSIVE StoreOf(_)
StoreOf(data) ==
    IF data = <<>> THEN EmptyDb
    ELSE LET row == data[Len(data)]
         IN  add_item(StoreOf(SubSeq(data, 1, Len(data) - 1)), row.Name,
                      row.Category, row.Assigned_Owner, row.Notes,
                      Given(<<Hawaii>>), 0).db

\* C17 - "" and "[]" in a row's Intervals are treated identically:
\* update_gantt gives the row no timeline rows, handle_modal_state loads no
\* interval component, and handle_table_edit passes update_item the empty
\* list, with the same results for either encoding.
C17_EmptyEncodingsAlike ==
    gantt.called =>
        \A i \in 1..Len(tasks) :
            tasks[i].Intervals \in {EmptyString, EmptyArray} =>
                LET other    == OtherEncoding(tasks, i)
                    previous == WithHawaii(tasks, i)
                    d        == StoreOf(previous)
                    edit     == handle_table_edit(d, tasks, previous, 0)
                IN  /\ TaskRows(tasks[i]) = <<>>
                    /\ update_gantt(other) = gantt
                    /\ LoadedForm(tasks, i).components = <<>>
                    /\ LoadedForm(other, i) = LoadedForm(tasks, i)
                    /\ edit.path = "updated"
                    /\ edit.call.wrote = Given(<<>>)
                    /\ handle_table_edit(d, other, previous, 0) = edit

\* a snapshot holding a row of each encoding has been drawn
C17_Witness ==
    /\ gantt.called
    /\ \E i \in 1..Len(tasks) : tasks[i].Intervals = EmptyString
    /\ \E i \in 1..Len(tasks) : tasks[i].Intervals = EmptyArray

-----------------------------------------------------------------------------
(* Properties of deletion and of the notes, checked under SpecNotes *)

ItemsNamed(d, name) == {i \in 1..Len(d.items) : d.items[i].name = name}

\* C12 - deletion is idempotent: delete_item with a key that resolves to
\* no item does not raise and leaves items, intervals and notes unchanged;
\* after a delete_item(k) on a store with at most one item named k, a
\* second delete_item(k) changes nothing.
C12_DeleteIdempotent ==
    [][call'.op = "delete_item" =>
          /\ ItemsNamed(db, call'.key) = {} => ~call'.raised /\ db' = db
          /\ Cardinality(ItemsNamed(db, call'.key)) <= 1 /\ ~call'.raised =>
                LET again == delete_item(db', call'.key, 0)
                IN  ~again.raised /\ again.db = db']_vars

\* delete_item has been called with a key that resolves to no item, on a
\* store holding an item, an interval, a note and a general note
C12_Witness ==
    /\ call.op = "delete_item" /\ ~call.found /\ ~call.raised
    /\ db.items # <<>> /\ db.intervals # <<>>
    /\ db.notes # <<>> /\ db.general_notes # <<>>

\* C18 - single-slot general note: general_notes never holds more than
\* one row; after a save_notes call (handle_notes makes one) it holds
\* exactly one row, with the text given, and no other call changes it.
C18_SingleSlotGeneralNote ==
    [][/\ Len(db'.general_notes) <= 1
       /\ call'.op \in {"save_notes", "handle_notes"} =>
              /\ Len(db'.general_notes) = 1
              /\ db'.general_notes[1].notes = call'.key
       /\ call'.op \notin {"save_notes", "handle_notes"} =>
              db'.general_notes = db.general_notes]_vars

\* save_notes has been called on a store that holds notes, and the one row
\* of general_notes holds its text
C18_Witness ==
    /\ call.op = "save_notes"
    /\ db.general_notes # <<>>
    /\ db.general_notes[1].notes = "buy boxes"
    /\ db.notes # <<>>

\* C19 - general note round-trip: handle_notes, which saves the text and
\* reads the general note back, returns the text just saved.
C19_GeneralNoteRoundTrip ==
    [][call'.op = "handle_notes" =>
          LET a == handle_notes(db, 1, call'.key)
          IN  ~a.raised /\ a.returned = call'.key]_vars

\* the tables but notes
OutsideNotes(d) == [d EXCEPT !.notes = <<>>, !.sqlite_sequence.notes = 0]

\* C20 - note edits and deletes are local: update_note(id, text) replaces
\* that note's text and leaves its id and timestamp, every other note and
\* all items and intervals unchanged; delete_note(id) removes only that
\* note; delete_item neither removes nor changes a note.
C20_NoteEditsLocal ==
    [][/\ call'.op \in {"update_note", "delete_note"} =>
              /\ OutsideNotes(db') = OutsideNotes(db)
              /\ db'.sqlite_sequence.notes = db.sqlite_sequence.notes
       /\ call'.op = "update_note" =>
              /\ Len(db'.notes) = Len(db.notes)
              /\ \A i \in 1..Len(db.notes) :
                    IF db.notes[i].id = call'.item_id
                    THEN db'.notes[i] = [db.notes[i] EXCEPT !.note_text = call'.key]
                    ELSE db'.notes[i] = db.notes[i]
       /\ call'.op = "delete_note" =>
              db'.notes = SelectSeq(db.notes, LAMBDA n : n.id # call'.item_id)
       /\ call'.op = "delete_item" =>
              /\ db'.notes = db.notes
              /\ db'.general_notes = db.general_notes
              /\ db'.sqlite_sequence.notes = db.sqlite_sequence.notes]_vars

\* update_note has replaced the text of one of two notes of different
\* timestamps, on a store with items and intervals
C20_Witness ==
    /\ call.op = "update_note" /\ call.found
    /\ Len(db.notes) = 2
    /\ db.notes[1].note_text # db.notes[2].note_text
    /\ db.notes[1].timestamp # db.notes[2].timestamp
    /\ db.items # <<>> /\ db.intervals # <<>>

-----------------------------------------------------------------------------
(* Order of the notes, checked under SpecNotes *)

\* C21 - get_all_notes returns every stored note exactly once, newest
\* first: of two notes, the one added later (the greater id) never comes
\* after the one added earlier, equal timestamps included.
C21_NotesNewestFirst ==
    call.op = "get_all_notes" =>
        LET rows == get_all_notes(db)
        IN  /\ Len(rows) = Len(db.notes)
            /\ {rows[p].id : p \in 1..Len(rows)} = NoteIds(db)
            /\ \A p \in 1..Len(rows), q \in 1..Len(rows) :
                  p < q => rows[p].id > rows[q].id

\* C22 - get_all_items is a pure read: it leaves items, intervals and notes
\* unchanged and returns one row per stored item, in ascending id, carrying
\* that item's fields, so that a second call returns the same sequence.
C22_GetAllItemsPureRead ==
    [][call'.op = "get_all_items" =>
          LET rows == get_all_items(db)
          IN  /\ db' = db
              /\ get_all_items(db') = rows
              /\ Len(rows) = Len(db.items)
              /\ \A i \in 1..Len(rows) :
                    /\ rows[i].Name = db.items[i].name
                    /\ rows[i].Category = db.items[i].category
                    /\ rows[i].Assigned_Owner = db.items[i].assigned_owner
                    /\ rows[i].Notes = db.items[i].notes
              /\ \A i \in 1..Len(rows), j \in 1..Len(rows) :
                    i < j => db.items[i].id < db.items[j].id]_vars

\* get_all_items has been called on a store of two items, a note and a
\* general note
C22_Witness ==
    /\ call.op = "get_all_items"
    /\ Len(db.items) = 2
    /\ db.notes # <<>>
    /\ db.general_notes # <<>>

-----------------------------------------------------------------------------
(* Row deletion, checked under Spec *)

\* the store without the item at position r and without its interval rows
Without(d, r) ==
    [DeleteIntervals(d, d.items[r].id) EXCEPT !.items = RemoveAt(@, r)]

\* the positions whose removal from `previous` gives `current`
RemovedRows(current, previous) ==
    {r \in 1..Len(previous) : current = RemoveAt(previous, r)}

\* the user has removed one row of a table that was in step with the store,
\* and neither callback has answered yet
RowRemoved ==
    /\ pending = {"handle_row_deletion", "handle_table_edit"}
    /\ ev.data_previous = Snapshot(db)
    /\ RemovedRows(ev.data, ev.data_previous) # {}

\* the store after the two callbacks of one table change, deletion first
DeletionThenEdit ==
    handle_table_edit(handle_row_deletion(db, ev.data, ev.data_previous, 0).db,
                      ev.data, ev.data_previous, 0).db

\* the store after the two callbacks of one table change, edit first
EditThenDeletion ==
    handle_row_deletion(handle_table_edit(db, ev.data, ev.data_previous, 0).db,
                        ev.data, ev.data_previous, 0).db

\* C23 - one row deletion, one reconciliation: when the user removes one row
\* of a table of uniquely named items and a row is left, the two callbacks the change
\* dispatches leave the same store in either order, and that store is the
\* prior one without the deleted item, every other item as it was.
C23_DeletionOrderIndependent ==
    /\ RowRemoved
    /\ ev.data # <<>>
    /\ \A i \in 1..Len(db.items), j \in 1..Len(db.items) :
          i # j => db.items[i].name # db.items[j].name
    => /\ DeletionThenEdit = EditThenDeletion
       /\ \E r \in RemovedRows(ev.data, ev.data_previous) :
             DeletionThenEdit = Without(db, r)

\* C24 - deletion detection: when the current snapshot is the previous one
\* with exactly one row removed, handle_row_deletion leaves the store
\* without the item of a removed row and with every other item, identical
\* rows and rows sharing a Name included.
C24_DeletesRemovedRow ==
    RowRemoved =>
        \E r \in RemovedRows(ev.data, ev.data_previous) :
            handle_row_deletion(db, ev.data, ev.data_previous, 0).db
                = Without(db, r)

\* C29 - no displayed item is deleted: when the current snapshot is shorter
\* than the previous one, the item handle_row_deletion deletes has no row of
\* its Name in the current snapshot, and at most one item is deleted.
C29_DeletedNotDisplayed ==
    /\ "handle_row_deletion" \in pending
    /\ Len(ev.data) < Len(ev.data_previous)
    => LET a == handle_row_deletion(db, ev.data, ev.data_previous, 0)
       IN  /\ Len(a.db.items) >= Len(db.items) - 1
           /\ Len(a.db.items) < Len(db.items) =>
                 \A i \in 1..Len(ev.data) : ev.data[i].Name # a.call.key

-----------------------------------------------------------------------------
(* The callbacks' store calls, checked under SpecCallbacks *)

\* the rows of the two snapshots that differ, position by position
Differing(current_data, previous_data) ==
    {i \in 1..Len(current_data) :
        i <= Len(previous_data) /\ current_data[i] # previous_data[i]}

\* C25 - cell-edit detection: a pass of handle_table_edit issues at most one
\* update_item; it is issued for the lowest index at which the previous
\* and the current snapshot differ, with the previous row's Name as key and
\* the current row's Name, Category, Assigned Owner, Notes and decoded
\* Intervals as payload, and no other item is written, rows that differ at
\* higher indices included.
C25_FirstDifferingRowOnly ==
    [][pass'.callback = "handle_table_edit" =>
          LET cur  == ev'.data
              prev == ev'.data_previous
              i    == FirstDiffering(cur, prev)
          IN  /\ call'.op \in {"none", "update_item"}
              /\ call'.op = "none" => db' = db
              /\ call'.op = "update_item" =>
                    /\ i # 0
                    /\ \A j \in Differing(cur, prev) : i <= j
                    /\ call'.key = prev[i].Name
                    /\ (~call'.found \/ call'.raised) => db' = db
                    /\ (call'.found /\ ~call'.raised) =>
                          LET pos == PositionOf(db, call'.item_id)
                          IN  /\ db'.items[pos] =
                                    [id             |-> call'.item_id,
                                     name           |-> cur[i].Name,
                                     category       |-> cur[i].Category,
                                     assigned_owner |-> cur[i].Assigned_Owner,
                                     notes          |-> cur[i].Notes]
                              /\ StoredIntervals(db', call'.item_id)
                                    = EditedIntervals(cur[i].Intervals).list
                              /\ OthersUnchanged(pos)]_vars

\* handle_table_edit has updated an item from snapshots that differ in two
\* rows
C25_Witness ==
    /\ pass.callback = "handle_table_edit"
    /\ call.op = "update_item" /\ call.found /\ ~call.raised
    /\ Cardinality(Differing(ev.data, ev.data_previous)) = 2

\* C26 - create/update dispatch: handle_submit calls update_item exactly when
\* the edit-mode flag is set and add_item otherwise; a submit in edit mode
\* leaves the number of items as it was, and a submit outside edit mode
\* whose add_item returns raises it by one.
C26_CreateUpdateDispatch ==
    [][pass'.callback = "handle_submit" =>
          /\ call'.op = "update_item" <=> ev'.is_edit_mode
          /\ call'.op = "add_item" <=> ~ev'.is_edit_mode
          /\ ev'.is_edit_mode => Len(db'.items) = Len(db.items)
          /\ (~ev'.is_edit_mode /\ ~call'.raised) =>
                Len(db'.items) = Len(db.items) + 1]_vars

\* a submit in edit mode has updated the item of the first row
C26_Witness ==
    /\ pass.callback = "handle_submit"
    /\ ev.is_edit_mode /\ ev.active_cell = 1
    /\ call.op = "update_item" /\ call.found /\ ~call.raised
    /\ Len(db.items) = 2

\* the indices of the form at which location, start and end are all given
Complete(components) ==
    {k \in 1..Len(components) :
        /\ components[k].Location \notin {NULL, ""}
        /\ components[k].Start \notin {NULL, ""}
        /\ components[k].End \notin {NULL, ""}}

\* list is the components at the indices of `kept`, in ascending index
InFormOrder(list, components, kept) ==
    /\ Len(list) = Cardinality(kept)
    /\ \E f \in [1..Len(list) -> kept] :
          /\ \A p \in 1..Len(list), q \in 1..Len(list) : p < q => f[p] < f[q]
          /\ \A p \in 1..Len(list) : list[p] = components[f[p]]

C28_ScalarEditKeepsIntervals ==
    [][/\ pass'.callback = "handle_table_edit"
       /\ ev'.data_previous = Snapshot(db)
       /\ \A i \in 1..Len(db.items), j \in 1..Len(db.items) :
             i # j => db.items[i].name # db.items[j].name
       /\ \E row \in 1..Len(ev'.data_previous), edit \in PasteEdits :
             ev'.data = WithCell(ev'.data_previous, row, edit)
       /\ ~call'.raised
       => LET row == FirstDiffering(ev'.data, ev'.data_previous)
          IN  row # 0 =>
                /\ Len(db'.items) = Len(db.items)
                /\ db'.items[row].id = db.items[row].id
                /\ StoredIntervals(db', db.items[row].id)
                      = StoredIntervals(db, db.items[row].id)
                /\ OthersUnchanged(row)]_vars

-----------------------------------------------------------------------------
(* Integrity of the store, checked under SpecWrites *)

\* C27 - referential integrity: after every add_item, update_item and
\* delete_item call that changes the store, each interval row's item_id is the id of an item row and
\* no two item rows share an id; update_item leaves the ids of the item rows
\* as they were, and an id given to a new item is greater than every id
\* given before, so that the id of a deleted item is never given again.
C27_ReferentialIntegrity ==
    [][db' # db =>
          /\ \A k \in 1..Len(db'.intervals) :
                \E i \in 1..Len(db'.items) :
                    db'.items[i].id = db'.intervals[k].item_id
          /\ \A i \in 1..Len(db'.items), j \in 1..Len(db'.items) :
                i # j => db'.items[i].id # db'.items[j].id
          /\ call'.op = "update_item" =>
                /\ Len(db'.items) = Len(db.items)
                /\ \A i \in 1..Len(db.items) : db'.items[i].id = db.items[i].id
          /\ \A i \in 1..Len(db'.items) :
                /\ db'.items[i].id <= db'.sqlite_sequence.items
                /\ \/ \E j \in 1..Len(db.items) : db.items[j].id = db'.items[i].id
                   \/ db'.items[i].id > db.sqlite_sequence.items
          /\ db'.sqlite_sequence.items >= db.sqlite_sequence.items]_vars

\* the first item has been deleted and an item added after that, with
\* intervals
C27_Witness ==
    /\ call.op = "add_item" /\ ~call.raised
    /\ db.items # <<>>
    /\ \A i \in 1..Len(db.items) : db.items[i].id # 1
    /\ IntervalsOf(db, call.item_id) # <<>>

-----------------------------------------------------------------------------
(* The modal, checked under Spec *)

\* C31 - modal state machine: after every output of handle_modal_state the
\* edit-mode flag is set only if the modal is open; the flag is set only by
\* a click on the actions cell of a row, which loads the row's four scalar
\* fields and, the table being in step with the store, one component per
\* interval stored for the row's item; every other output resets the flag
\* and the form to its defaults with no interval component.
C31_ModalStateMachine ==
    [][modal' # modal =>
          /\ modal'.edit_mode => modal'.is_open
          /\ modal'.edit_mode =>
                /\ ~modal.is_open
                /\ modal'.active_cell \in 1..Len(table)
                /\ LET row == table[modal'.active_cell]
                   IN  /\ modal'.form.name = row.Name
                       /\ modal'.form.category = row.Category
                       /\ modal'.form.owner = row.Assigned_Owner
                       /\ modal'.form.notes = row.Notes
                /\ table = Snapshot(db) =>
                      Len(modal'.form.components)
                          = Len(IntervalsOf(db, db.items[modal'.active_cell].id))
          /\ ~modal'.edit_mode => modal'.form = DefaultForm]_vars

-----------------------------------------------------------------------------
(* The dev prototype, checked under SpecDev *)

\* C32 - add_task appends one row: with a truthy click count the data
\* returned is the current data, every row as it was and in the same order,
\* with one new row at the end whose empty fields are replaced by their
\* defaults (Name "New Task", the first default category, empty owner and
\* notes, the first default location); with a falsy click count the data is
\* returned unchanged.
C32_AddTaskAppendsOneRow ==
    [][pass'.callback = "add_task" =>
          LET form == ev'.form
              new  == table'[Len(table')]
              Or(value, default) == IF value \in {NULL, ""} THEN default ELSE value
          IN  IF ev'.n_clicks = NoClicks \/ ev'.n_clicks.n = 0
              THEN table' = table
              ELSE /\ Len(table') = Len(table) + 1
                   /\ \A i \in 1..Len(table) : table'[i] = table[i]
                   /\ new.Name = Or(form.Name, "New Task")
                   /\ new.Category = Or(form.Category, "furniture")
                   /\ new.Assigned_Owner = Or(form.Assigned_Owner, "")
                   /\ new.Notes = Or(form.Notes, "")
                   /\ new.Location = Or(form.Location, "Hawaii")
                   /\ form.Start \notin {NULL, ""} => new.Start = form.Start
                   /\ form.End \notin {NULL, ""} => new.End = form.End]_vars

\* an untouched form has been submitted over a table of two rows
C32_Witness ==
    /\ pass.callback = "add_task" /\ pass.path = "added"
    /\ ev.form.Name = NULL /\ ev.form.Location = NULL
    /\ Len(ev.data) = 2
    /\ Len(table) = 3 /\ table[3].Name = "New Task"

=============================================================================
